---------------------------- MODULE Spec2Model ----------------------------
(***************************************************************************)
(* Model of RESOLUTOR.py: a Sudoku solver written as a CSP search          *)
(* (initial singleton propagation, MRV selection, forward checking and     *)
(* chronological backtracking with an undo log).                           *)
(*                                                                         *)
(* The recursion of backtrack_resolver is modelled by an explicit stack of *)
(* frames (pila); asignacion and dominios are the two dictionaries shared  *)
(* by all the frames, exactly as the Python objects are shared.            *)
(***************************************************************************)
EXTENDS Integers, Sequences, FiniteSets, TLC

VARIABLES
    archivo,      \* the input file: [existe, lineas]
    pc,           \* position inside resolver_sudoku_desde_archivo
    dominios,     \* dominios_iniciales / dominios_actuales: cell -> set of digits
    asignacion,   \* the assignment dictionary of the search
    pila,         \* the call stack of backtrack_resolver, innermost frame last
    retorno,      \* value handed back by the call that has just returned
    resultado,    \* what resolver_sudoku_desde_archivo returns
    mensajes,     \* the messages printed so far (tags, in order)
    invocaciones, \* history: how many times backtrack_resolver was entered
    ultimo,       \* history: entry snapshot of the call that returned last
    sembrados,    \* history: the domains as seeded from the file (line 196)
    historial     \* history: what the earlier calls of the resolver returned

vars == <<archivo, pc, dominios, asignacion, pila, retorno, resultado,
          mensajes, invocaciones, ultimo, sembrados, historial>>

---------------------------------------------------------------------------
(* Generic helpers standing for Python built-ins.                          *)

\* range(a, b, paso) as a sequence
Rango(a, b, paso) == [k \in 1..((b - a + paso - 1) \div paso) |-> a + (k - 1) * paso]

\* sorted(list(S)) for a set of integers
RECURSIVE Ordenar(_)
Ordenar(S) ==
    IF S = {} THEN <<>>
    ELSE LET m == CHOOSE x \in S : \A y \in S : x <= y
         IN  <<m>> \o Ordenar(S \ {m})

\* membership in a Python list
EnLista(x, lista) == \E k \in DOMAIN lista : lista[k] = x

\* itertools.product(xs, ys): the last factor varies fastest
Producto(xs, ys) ==
    [k \in 1..(Len(xs) * Len(ys)) |->
        <<xs[((k - 1) \div Len(ys)) + 1], ys[((k - 1) % Len(ys)) + 1]>>]

\* concatenation of a sequence of sequences
RECURSIVE Aplanar(_)
Aplanar(ss) == IF ss = <<>> THEN <<>> ELSE Head(ss) \o Aplanar(Tail(ss))

\* Python's None, as an optional value: <<>> is None, <<v>> is the value v
None == <<>>
Algo(v) == <<v>>

---------------------------------------------------------------------------
(* Sudoku definitions, lines 5-57.                                         *)

DOMINIO == 1..9

ID_COLUMNAS == <<"A", "B", "C", "D", "E", "F", "G", "H", "I">>

\* f"{col}{fila}"
Clave(col, fila) == col \o ToString(fila)

claves_para_strKeys == Producto(Rango(1, 10, 1), ID_COLUMNAS)

\* Mutant: the keys generated column by column (A1, A2, ..., A9, B1, ...),
\* the other generation that the comment of lines 13-18 describes.
CLAVES_CELDA_por_columnas ==
    LET claves == Producto(ID_COLUMNAS, Rango(1, 10, 1))
    IN  [k \in DOMAIN claves |-> Clave(claves[k][1], claves[k][2])]

CLAVES_CELDA ==
    [k \in DOMAIN claves_para_strKeys |->
        Clave(claves_para_strKeys[k][2], claves_para_strKeys[k][1])]

definir_restricciones_columnas(id_cols, valores_dominio) ==
    [c \in DOMAIN id_cols |->
        [i \in DOMAIN valores_dominio |-> Clave(id_cols[c], valores_dominio[i])]]

definir_restricciones_filas(id_cols, valores_dominio) ==
    [i \in DOMAIN valores_dominio |->
        [c \in DOMAIN id_cols |-> Clave(id_cols[c], valores_dominio[i])]]

\* one box: the loops over i and j of lines 47-51, j fastest
variables_caja(lista_id_cols, inicio_fila, inicio_idx_col) ==
    LET desp == Producto(Rango(0, 3, 1), Rango(0, 3, 1))
    IN  [k \in DOMAIN desp |->
            Clave(lista_id_cols[inicio_idx_col + desp[k][2] + 1],
                  inicio_fila + desp[k][1])]

\* Mutant: the column origins of the boxes advance by 1 instead of 3.
definir_restricciones_cajas_solapadas(id_cols_str, valores_dominio) ==
    LET inicios == Producto(Rango(1, 10, 3), Rango(0, 3, 1))
    IN  [k \in DOMAIN inicios |->
            variables_caja(id_cols_str, inicios[k][1], inicios[k][2])]

definir_restricciones_cajas(id_cols_str, valores_dominio) ==
    LET inicios == Producto(Rango(1, 10, 3), Rango(0, 9, 3))
    IN  [k \in DOMAIN inicios |->
            variables_caja(id_cols_str, inicios[k][1], inicios[k][2])]

TODAS_LAS_RESTRICCIONES ==
    definir_restricciones_columnas(ID_COLUMNAS, Ordenar(DOMINIO))
    \o definir_restricciones_filas(ID_COLUMNAS, Ordenar(DOMINIO))
    \o definir_restricciones_cajas(ID_COLUMNAS, Ordenar(DOMINIO))

Celdas == {CLAVES_CELDA[k] : k \in DOMAIN CLAVES_CELDA}

\* The cells visited by the two nested loops "for grupo in restricciones:
\* if variable in grupo: for vecino in grupo" (lines 97-99 and 112-114),
\* in the order of the visit; a cell sharing two groups appears twice.
\* Mutant: the visit stops after the first group that holds the variable.
VisitaDe_primer_grupo(variable, restricciones) ==
    LET con == {g \in DOMAIN restricciones : EnLista(variable, restricciones[g])}
    IN  IF con = {} THEN <<>>
        ELSE restricciones[CHOOSE g \in con : \A h \in con : g <= h]

VisitaDe(variable, restricciones) ==
    Aplanar([g \in DOMAIN restricciones |->
                IF EnLista(variable, restricciones[g]) THEN restricciones[g]
                ELSE <<>>])

---------------------------------------------------------------------------
(* Reading the board, lines 184-209.  A line of the file is a sequence of  *)
(* characters; str.strip, str.isdigit and int are modelled by what they do *)
(* on the characters.                                                      *)

Blancos == {" "}

DIGITOS_DECIMALES == <<"0", "1", "2", "3", "4", "5", "6", "7", "8", "9">>

\* Characters for which str.isdigit() holds and int() fails: the digits
\* that are not decimal digits (superscripts and the like).
DIGITOS_NO_DECIMALES == {"²"}

EsDecimal(ch) == EnLista(ch, DIGITOS_DECIMALES)

ValorDecimal(ch) == (CHOOSE k \in DOMAIN DIGITOS_DECIMALES : DIGITOS_DECIMALES[k] = ch) - 1

\* str.strip()
RECURSIVE strip(_)
strip(s) ==
    IF s = <<>> THEN s
    ELSE IF Head(s) \in Blancos THEN strip(Tail(s))
    ELSE IF s[Len(s)] \in Blancos THEN strip(SubSeq(s, 1, Len(s) - 1))
    ELSE s

\* str.isdigit(): not empty and every character is a digit
isdigit(s) ==
    /\ s # <<>>
    /\ \A k \in DOMAIN s : EsDecimal(s[k]) \/ s[k] \in DIGITOS_NO_DECIMALES

\* int(s) raises ValueError unless every character is a decimal digit
int_falla(s) == \E k \in DOMAIN s : ~EsDecimal(s[k])

RECURSIVE int(_)
int(s) ==
    IF s = <<>> THEN 0
    ELSE 10 * int(SubSeq(s, 1, Len(s) - 1)) + ValorDecimal(s[Len(s)])

\* f.readline().strip(): '' once the file is exhausted
readline(lineas, k) == IF k <= Len(lineas) THEN strip(lineas[k]) ELSE <<>>

\* What lines 192-198 do with the k-th line: "fijar" (line 196), "avisar"
\* (line 198), "excepcion" (int() raises) or "nada" (the cell stays empty).
clase_de_linea(lineas, k) ==
    LET valor_linea == readline(lineas, k)
    IN  IF valor_linea # <<>> /\ isdigit(valor_linea) /\ valor_linea # <<"0">>
        THEN IF int_falla(valor_linea) THEN "excepcion"
             ELSE IF 1 <= int(valor_linea) /\ int(valor_linea) <= 9 THEN "fijar"
             ELSE "avisar"
        ELSE "nada"

\* The loop of lines 191-198 over all the keys.  error: an exception left
\* the loop (caught at line 207); the warnings are those printed before it.
leer_celdas(lineas, dom, msgs) ==
    LET indices == DOMAIN CLAVES_CELDA
        fallan == {k \in indices : clase_de_linea(lineas, k) = "excepcion"}
        leidas == IF fallan = {} THEN indices
                  ELSE {k \in indices : \A f \in fallan : k < f}
        avisos == Cardinality({k \in leidas : clase_de_linea(lineas, k) = "avisar"})
        \* the last line read for a key decides its domain
        ultima(clave) == CHOOSE k \in leidas :
                            /\ CLAVES_CELDA[k] = clave
                            /\ \A j \in leidas : CLAVES_CELDA[j] = clave => j <= k
    IN  [error |-> fallan # {},
         dominios |-> [clave \in DOMAIN dom |->
                         IF /\ \E k \in leidas : CLAVES_CELDA[k] = clave
                            /\ clase_de_linea(lineas, ultima(clave)) = "fijar"
                         THEN {int(readline(lineas, ultima(clave)))}
                         ELSE dom[clave]],
         mensajes |-> msgs \o [i \in 1..avisos |-> "numero_invalido"]]

---------------------------------------------------------------------------
(* aplicar_consistencia_inicial, lines 158-178.  The state of the loops is *)
(* [dominios, cambio, vacio]; vacio records the early "return False".      *)

\* Mutant: the test of lines 175-177 for an emptied domain is missing.
RECURSIVE bucle_var2_sin_vacio(_, _, _, _, _)
bucle_var2_sin_vacio(st, grupo, var1, valor_a_eliminar, j) ==
    IF j > Len(grupo) THEN st
    ELSE LET var2 == grupo[j]
         IN  IF var1 # var2 /\ valor_a_eliminar \in st.dominios[var2]
             THEN bucle_var2_sin_vacio(
                     [dominios |-> [st.dominios EXCEPT ![var2] = @ \ {valor_a_eliminar}],
                      cambio |-> TRUE, vacio |-> FALSE],
                     grupo, var1, valor_a_eliminar, j + 1)
             ELSE bucle_var2_sin_vacio(st, grupo, var1, valor_a_eliminar, j + 1)

RECURSIVE bucle_var2(_, _, _, _, _)
bucle_var2(st, grupo, var1, valor_a_eliminar, j) ==
    IF j > Len(grupo) THEN st
    ELSE LET var2 == grupo[j]
         IN  IF var1 # var2 /\ valor_a_eliminar \in st.dominios[var2]
             THEN LET d == [st.dominios EXCEPT ![var2] = @ \ {valor_a_eliminar}]
                  IN  IF d[var2] = {}
                      THEN [dominios |-> d, cambio |-> TRUE, vacio |-> TRUE]
                      ELSE bucle_var2([dominios |-> d, cambio |-> TRUE, vacio |-> FALSE],
                                      grupo, var1, valor_a_eliminar, j + 1)
             ELSE bucle_var2(st, grupo, var1, valor_a_eliminar, j + 1)

RECURSIVE bucle_var1(_, _, _)
bucle_var1(st, grupo, i) ==
    IF st.vacio \/ i > Len(grupo) THEN st
    ELSE LET var1 == grupo[i]
         IN  IF Cardinality(st.dominios[var1]) = 1
             THEN bucle_var1(bucle_var2(st, grupo, var1,
                                        CHOOSE v \in st.dominios[var1] : TRUE, 1),
                             grupo, i + 1)
             ELSE bucle_var1(st, grupo, i + 1)

RECURSIVE bucle_grupos(_, _, _)
bucle_grupos(st, restricciones, g) ==
    IF st.vacio \/ g > Len(restricciones) THEN st
    ELSE bucle_grupos(bucle_var1(st, restricciones[g], 1), restricciones, g + 1)

\* Mutant: one scan of the groups only, without the while of line 165.
aplicar_una_sola_pasada(dom, restricciones) ==
    LET st == bucle_grupos([dominios |-> dom, cambio |-> FALSE, vacio |-> FALSE],
                           restricciones, 1)
    IN  [ok |-> ~st.vacio, dominios |-> st.dominios]

RECURSIVE aplicar_consistencia_inicial(_, _)
aplicar_consistencia_inicial(dom, restricciones) ==
    LET st == bucle_grupos([dominios |-> dom, cambio |-> FALSE, vacio |-> FALSE],
                           restricciones, 1)
    IN  IF st.vacio THEN [ok |-> FALSE, dominios |-> st.dominios]
        ELSE IF st.cambio THEN aplicar_consistencia_inicial(st.dominios, restricciones)
        ELSE [ok |-> TRUE, dominios |-> st.dominios]

---------------------------------------------------------------------------
(* The CSP functions, lines 61-122.                                        *)

\* Mutant: off by one in the completeness test.
asignacion_esta_completa_una_menos(asig, todas_las_variables) ==
    Cardinality(DOMAIN asig) >= Len(todas_las_variables) - 1

asignacion_esta_completa(asig, todas_las_variables) ==
    Cardinality(DOMAIN asig) = Len(todas_las_variables)

\* Mutant: line 79 compares with <=, which keeps the last of the variables
\* with the smallest domain.
bucle_mrv_ultima(variables_no_asignadas, dom) ==
    LET presentes == {k \in DOMAIN variables_no_asignadas :
                        variables_no_asignadas[k] \in DOMAIN dom}
        tamanos == {Cardinality(dom[variables_no_asignadas[k]]) : k \in presentes}
        tamano_minimo_dominio == CHOOSE t \in tamanos : \A u \in tamanos : t <= u
        minimas == {k \in presentes :
                        Cardinality(dom[variables_no_asignadas[k]]) = tamano_minimo_dominio}
    IN  IF presentes = {} THEN None
        ELSE Algo(variables_no_asignadas[CHOOSE k \in minimas : \A j \in minimas : k >= j])

\* The loop of lines 74-81: the strict comparison of line 79 keeps the first
\* of the variables with the smallest domain; None when line 75 skipped all.
bucle_mrv(variables_no_asignadas, dom) ==
    LET presentes == {k \in DOMAIN variables_no_asignadas :
                        variables_no_asignadas[k] \in DOMAIN dom}
        tamanos == {Cardinality(dom[variables_no_asignadas[k]]) : k \in presentes}
        tamano_minimo_dominio == CHOOSE t \in tamanos : \A u \in tamanos : t <= u
        minimas == {k \in presentes :
                        Cardinality(dom[variables_no_asignadas[k]]) = tamano_minimo_dominio}
    IN  IF presentes = {} THEN None
        ELSE Algo(variables_no_asignadas[CHOOSE k \in minimas : \A j \in minimas : k <= j])

\* None, or Algo(the selected variable)
seleccionar_variable_no_asignada_mrv(asig, dom, todas_las_variables) ==
    LET variables_no_asignadas ==
            SelectSeq(todas_las_variables, LAMBDA v : v \notin DOMAIN asig)
    IN  IF variables_no_asignadas = <<>> THEN None
        ELSE bucle_mrv(variables_no_asignadas, dom)

\* Mutant: the candidates are taken from DOMINIO and not from the domain of
\* the variable.
ordenar_valores_de_DOMINIO(variable, dom) ==
    IF variable \notin DOMAIN dom THEN <<>> ELSE Ordenar(DOMINIO)

\* Mutant: the largest candidate of the domain is never tried.
ordenar_valores_sin_el_mayor(variable, dom) ==
    IF variable \notin DOMAIN dom THEN <<>>
    ELSE SubSeq(Ordenar(dom[variable]), 1, Cardinality(dom[variable]) - 1)

ordenar_valores_del_dominio(variable, dom) ==
    IF variable \notin DOMAIN dom THEN <<>> ELSE Ordenar(dom[variable])

es_consistente_con_asignacion(variable, valor, asig, restricciones) ==
    LET visita == VisitaDe(variable, restricciones)
    IN  \A k \in DOMAIN visita :
            (visita[k] # variable /\ visita[k] \in DOMAIN asig)
                => asig[visita[k]] # valor

\* The loops of lines 112-121 from the k-th visited cell on.
RECURSIVE bucle_fc(_, _, _, _, _, _, _)
bucle_fc(visita, k, variable_asignada, valor_asignado, asig, dom, registro) ==
    IF k > Len(visita) THEN [ok |-> TRUE, dominios |-> dom, registro |-> registro]
    ELSE LET vecino == visita[k]
         IN  IF /\ vecino # variable_asignada
                /\ vecino \notin DOMAIN asig
                /\ valor_asignado \in dom[vecino]
             THEN LET d == [dom EXCEPT ![vecino] = @ \ {valor_asignado}]
                      r == Append(registro, <<vecino, valor_asignado>>)
                  IN  IF d[vecino] = {}
                      THEN [ok |-> FALSE, dominios |-> d, registro |-> r]
                      ELSE bucle_fc(visita, k + 1, variable_asignada, valor_asignado,
                                    asig, d, r)
             ELSE bucle_fc(visita, k + 1, variable_asignada, valor_asignado,
                           asig, dom, registro)

\* Mutant: the test "vecino not in asignacion" of line 116 is missing.
RECURSIVE bucle_fc_tambien_asignadas(_, _, _, _, _, _, _)
bucle_fc_tambien_asignadas(visita, k, variable_asignada, valor_asignado, asig, dom, registro) ==
    IF k > Len(visita) THEN [ok |-> TRUE, dominios |-> dom, registro |-> registro]
    ELSE LET vecino == visita[k]
         IN  IF vecino # variable_asignada /\ valor_asignado \in dom[vecino]
             THEN LET d == [dom EXCEPT ![vecino] = @ \ {valor_asignado}]
                      r == Append(registro, <<vecino, valor_asignado>>)
                  IN  IF d[vecino] = {}
                      THEN [ok |-> FALSE, dominios |-> d, registro |-> r]
                      ELSE bucle_fc_tambien_asignadas(visita, k + 1, variable_asignada,
                                                      valor_asignado, asig, d, r)
             ELSE bucle_fc_tambien_asignadas(visita, k + 1, variable_asignada,
                                             valor_asignado, asig, dom, registro)

forward_checking_tambien_asignadas(variable_asignada, valor_asignado, asig, dom, registro, restricciones) ==
    bucle_fc_tambien_asignadas(VisitaDe(variable_asignada, restricciones), 1,
                               variable_asignada, valor_asignado, asig, dom, registro)

\* Mutant: the removal that empties a domain is not recorded (the return
\* of line 121 placed before the append of line 119).
RECURSIVE bucle_fc_sin_registro(_, _, _, _, _, _, _)
bucle_fc_sin_registro(visita, k, variable_asignada, valor_asignado, asig, dom, registro) ==
    IF k > Len(visita) THEN [ok |-> TRUE, dominios |-> dom, registro |-> registro]
    ELSE LET vecino == visita[k]
         IN  IF /\ vecino # variable_asignada
                /\ vecino \notin DOMAIN asig
                /\ valor_asignado \in dom[vecino]
             THEN LET d == [dom EXCEPT ![vecino] = @ \ {valor_asignado}]
                  IN  IF d[vecino] = {}
                      THEN [ok |-> FALSE, dominios |-> d, registro |-> registro]
                      ELSE bucle_fc_sin_registro(visita, k + 1, variable_asignada,
                                                 valor_asignado, asig, d,
                                                 Append(registro, <<vecino, valor_asignado>>))
             ELSE bucle_fc_sin_registro(visita, k + 1, variable_asignada, valor_asignado,
                                        asig, dom, registro)

forward_checking_sin_registro(variable_asignada, valor_asignado, asig, dom, registro, restricciones) ==
    bucle_fc_sin_registro(VisitaDe(variable_asignada, restricciones), 1,
                          variable_asignada, valor_asignado, asig, dom, registro)

\* Mutant: forward checking removes nothing.
forward_checking_sin_poda(variable_asignada, valor_asignado, asig, dom, registro, restricciones) ==
    [ok |-> TRUE, dominios |-> dom, registro |-> registro]

\* Mutant: line 121 reports consistency although a domain was emptied.
forward_checking_sin_aviso(variable_asignada, valor_asignado, asig, dom, registro, restricciones) ==
    [bucle_fc(VisitaDe(variable_asignada, restricciones), 1,
              variable_asignada, valor_asignado, asig, dom, registro) EXCEPT !.ok = TRUE]

\* [ok, dominios, registro]: the verdict, the domains and the change log
\* as the call leaves them
forward_checking(variable_asignada, valor_asignado, asig, dom, registro, restricciones) ==
    bucle_fc(VisitaDe(variable_asignada, restricciones), 1,
             variable_asignada, valor_asignado, asig, dom, registro)

\* Mutant: the removed digits are not put back on backtrack.
deshacer_cambios_omitido(dom, cambios_dominio_fc) == dom

\* lines 151-152: dominios_actuales[var_cambiada].add(val_eliminado)
RECURSIVE deshacer_cambios(_, _)
deshacer_cambios(dom, cambios_dominio_fc) ==
    IF cambios_dominio_fc = <<>> THEN dom
    ELSE deshacer_cambios(
            [dom EXCEPT ![Head(cambios_dominio_fc)[1]] = @ \cup {Head(cambios_dominio_fc)[2]}],
            Tail(cambios_dominio_fc))

\* asignacion[variable] = valor
asignar(asig, variable, valor) ==
    [c \in DOMAIN asig \cup {variable} |-> IF c = variable THEN valor ELSE asig[c]]

\* Mutant: the assignment is not deleted on backtrack.
desasignar_olvidado(asig, variable) == asig

\* del asignacion[variable]
desasignar(asig, variable) == [c \in DOMAIN asig \ {variable} |-> asig[c]]

\* bool(resultado) of "if resultado:": None and the empty dict are false
verdadero(r) == r # None /\ DOMAIN r[1] # {}

---------------------------------------------------------------------------
(* The input files explored.  A board lists the 81 lines of the file in    *)
(* file order, 0 for an empty cell.                                        *)

\* a complete valid grid
TABLERO_RESUELTO ==
    << 5, 3, 4, 6, 7, 8, 9, 1, 2,
       6, 7, 2, 1, 9, 5, 3, 4, 8,
       1, 9, 8, 3, 4, 2, 5, 6, 7,
       8, 5, 9, 7, 6, 1, 4, 2, 3,
       4, 2, 6, 8, 5, 3, 7, 9, 1,
       7, 1, 3, 9, 2, 4, 8, 5, 6,
       9, 6, 1, 5, 3, 7, 2, 8, 4,
       2, 8, 7, 4, 1, 9, 6, 3, 5,
       3, 4, 5, 2, 8, 6, 1, 7, 9 >>

\* one completion; the search takes a wrong branch before finding it
TABLERO_UNICO ==
    << 5, 3, 4, 6, 7, 8, 9, 1, 2,
       6, 7, 2, 1, 9, 5, 3, 4, 8,
       1, 9, 8, 3, 4, 2, 5, 6, 7,
       8, 5, 0, 0, 6, 1, 0, 2, 3,
       0, 2, 6, 8, 5, 3, 0, 9, 1,
       0, 1, 3, 9, 2, 0, 8, 5, 6,
       0, 6, 1, 5, 3, 0, 2, 8, 4,
       2, 8, 0, 0, 1, 0, 6, 3, 5,
       3, 4, 5, 2, 8, 6, 1, 7, 9 >>

\* one completion, found after several failed branches
TABLERO_DIFICIL ==
    << 0, 0, 4, 6, 0, 0, 0, 0, 2,
       0, 7, 0, 0, 0, 0, 0, 4, 0,
       0, 9, 0, 0, 4, 0, 5, 6, 0,
       0, 5, 9, 7, 0, 0, 0, 0, 3,
       4, 0, 6, 0, 0, 0, 0, 9, 1,
       0, 1, 0, 0, 0, 0, 0, 0, 0,
       0, 6, 0, 5, 0, 0, 0, 0, 0,
       2, 0, 0, 0, 0, 9, 0, 3, 0,
       0, 0, 0, 0, 8, 0, 1, 0, 0 >>

\* A1, B1, C1 can only hold 1 or 2: no completion, but no domain is emptied
\* by the initial pass
TABLERO_SIN_SOLUCION ==
    << 0, 0, 0, 4, 5, 6, 7, 8, 9,
       3, 0, 0, 0, 0, 0, 0, 0, 0,
       0, 0, 0, 0, 0, 0, 0, 0, 0,
       0, 0, 0, 0, 0, 0, 0, 0, 0,
       0, 0, 0, 0, 0, 0, 0, 0, 0,
       0, 0, 0, 0, 0, 0, 0, 0, 0,
       0, 0, 0, 0, 0, 0, 0, 0, 0,
       0, 0, 0, 0, 0, 0, 0, 0, 0,
       0, 0, 0, 0, 0, 0, 0, 0, 0 >>

TABLERO_VACIO == [k \in 1..Len(CLAVES_CELDA) |-> 0]

TABLEROS == {TABLERO_RESUELTO, TABLERO_UNICO, TABLERO_DIFICIL,
             TABLERO_SIN_SOLUCION, TABLERO_VACIO}

\* the lines that may be overwritten, and how many of them are tried
POSICIONES == <<1, 2, 10, 31, 81>>
NumPosiciones == 3

\* what a line may be overwritten with
FICHAS == { <<"0">>, <<>>, <<"x">>, <<"1">>, <<"6">>, <<"1", "2">>, <<"²">>,
            <<" ", "2">> }

LineasDe(tablero) == [k \in DOMAIN tablero |-> <<DIGITOS_DECIMALES[tablero[k] + 1]>>]

Fichero(lineas) == [existe |-> TRUE, lineas |-> lineas]

ENTRADAS ==
    {Fichero(LineasDe(t)) : t \in TABLEROS}
    \cup {Fichero([LineasDe(t) EXCEPT ![POSICIONES[p]] = f]) :
            t \in TABLEROS, p \in 1..NumPosiciones, f \in FICHAS}
    \cup {Fichero(SubSeq(LineasDe(TABLERO_RESUELTO), 1, Len(TABLERO_RESUELTO) - 1)),
          Fichero(Append(LineasDe(TABLERO_RESUELTO), <<"0">>)),
          [existe |-> FALSE, lineas |-> <<>>]}

---------------------------------------------------------------------------
(* resolver_sudoku_desde_archivo and the frames of backtrack_resolver.     *)

Marco(fase, variable, valores, idx, cambios, dom, asig) ==
    [fase |-> fase, variable |-> variable, valores |-> valores, idx |-> idx,
     cambios |-> cambios, dom_entrada |-> dom, asg_entrada |-> asig]

\* the frame of a call that has just been made
MarcoNuevo(dom, asig) == Marco("entrada", "", <<>>, 1, <<>>, dom, asig)

Cima == pila[Len(pila)]
Resto == SubSeq(pila, 1, Len(pila) - 1)
ConCima(m) == [pila EXCEPT ![Len(pila)] = m]

SinRetorno == [pendiente |-> FALSE, valor |-> None]
Retorno(v) == [pendiente |-> TRUE, valor |-> v]

\* history record of a call that returns
Salida(marco, v) ==
    Algo([exito |-> verdadero(v), dom_entrada |-> marco.dom_entrada,
          asg_entrada |-> marco.asg_entrada])

Init ==
    /\ archivo \in ENTRADAS
    /\ pc = "inicio"
    /\ dominios = [clave \in Celdas |-> DOMINIO]
    /\ asignacion = <<>>
    /\ pila = <<>>
    /\ retorno = SinRetorno
    /\ resultado = None
    /\ mensajes = <<>>
    /\ invocaciones = 0
    /\ ultimo = None
    /\ sembrados = None
    /\ historial = {}

\* lines 184-209: seed the domains from the file
Cargar ==
    /\ pc = "inicio"
    /\ IF ~archivo.existe
       THEN /\ mensajes' = Append(mensajes, "no_encontrado")
            /\ pc' = "fin"
            /\ UNCHANGED <<dominios, sembrados>>
       ELSE LET r == leer_celdas(archivo.lineas,
                                 [clave \in Celdas |-> DOMINIO], mensajes)
            IN  IF r.error
                THEN /\ mensajes' = Append(r.mensajes, "error_lectura")
                     /\ pc' = "fin"
                     /\ UNCHANGED <<dominios, sembrados>>
                ELSE /\ mensajes' = IF Len(archivo.lineas) > Len(CLAVES_CELDA)
                                    THEN Append(r.mensajes, "demasiadas_lineas")
                                    ELSE r.mensajes
                     /\ dominios' = r.dominios
                     /\ sembrados' = Algo(r.dominios)
                     /\ pc' = "cargado"
    /\ resultado' = None
    /\ UNCHANGED <<archivo, asignacion, pila, retorno, invocaciones, ultimo, historial>>

\* lines 211-218: the initial pass, then the root call of the search
Propagar ==
    /\ pc = "cargado"
    /\ LET r == aplicar_consistencia_inicial(dominios, TODAS_LAS_RESTRICCIONES)
       IN  /\ dominios' = r.dominios
           /\ IF ~r.ok
              THEN /\ mensajes' = mensajes \o <<"dominio_vacio", "inconsistente">>
                   /\ resultado' = None
                   /\ pc' = "fin"
                   /\ UNCHANGED <<asignacion, pila, invocaciones>>
              ELSE /\ mensajes' = Append(mensajes, "intentando")
                   /\ asignacion' = <<>>
                   /\ pila' = <<MarcoNuevo(r.dominios, <<>>)>>
                   /\ invocaciones' = 1
                   /\ pc' = "buscando"
                   /\ UNCHANGED resultado
    /\ UNCHANGED <<archivo, retorno, ultimo, sembrados, historial>>

\* lines 130-138: entry of backtrack_resolver up to the head of the loop
Entrar ==
    /\ pc = "buscando" /\ pila # <<>> /\ Cima.fase = "entrada"
    /\ IF asignacion_esta_completa(asignacion, CLAVES_CELDA)
       THEN /\ pila' = Resto
            /\ retorno' = Retorno(Algo(asignacion))
            /\ ultimo' = Salida(Cima, Algo(asignacion))
            /\ UNCHANGED mensajes
       ELSE LET variable_a_asignar ==
                    seleccionar_variable_no_asignada_mrv(asignacion, dominios, CLAVES_CELDA)
            IN  IF variable_a_asignar = None
                THEN /\ pila' = Resto
                     /\ retorno' = Retorno(None)
                     /\ ultimo' = Salida(Cima, None)
                     /\ mensajes' = Append(mensajes, "error_mrv")
                ELSE /\ pila' = ConCima(
                            [Cima EXCEPT !.fase = "bucle",
                                         !.variable = variable_a_asignar[1],
                                         !.valores = ordenar_valores_del_dominio(
                                                        variable_a_asignar[1], dominios),
                                         !.idx = 1])
                     /\ UNCHANGED <<retorno, ultimo, mensajes>>
    /\ UNCHANGED <<archivo, pc, dominios, asignacion, resultado, invocaciones,
                   sembrados, historial>>

\* lines 138-145: the next candidate: check, assign, forward checking and,
\* when that succeeds, the recursive call
Probar ==
    /\ pc = "buscando" /\ pila # <<>> /\ Cima.fase = "bucle"
    /\ Cima.idx <= Len(Cima.valores)
    /\ LET valor == Cima.valores[Cima.idx]
       IN  IF es_consistente_con_asignacion(Cima.variable, valor, asignacion,
                                            TODAS_LAS_RESTRICCIONES)
           THEN LET asig == asignar(asignacion, Cima.variable, valor)
                    fc == forward_checking(Cima.variable, valor, asig, dominios,
                                           <<>>, TODAS_LAS_RESTRICCIONES)
                IN  /\ asignacion' = asig
                    /\ dominios' = fc.dominios
                    /\ IF fc.ok
                       THEN /\ pila' = Append(
                                   ConCima([Cima EXCEPT !.fase = "llamando",
                                                        !.cambios = fc.registro]),
                                   MarcoNuevo(fc.dominios, asig))
                            /\ invocaciones' = invocaciones + 1
                       ELSE /\ pila' = ConCima([Cima EXCEPT !.fase = "deshacer",
                                                            !.cambios = fc.registro])
                            /\ UNCHANGED invocaciones
           ELSE /\ pila' = ConCima([Cima EXCEPT !.idx = @ + 1])
                /\ UNCHANGED <<asignacion, dominios, invocaciones>>
    /\ UNCHANGED <<archivo, pc, retorno, resultado, mensajes, ultimo, sembrados,
                   historial>>

\* Mutant: line 146 is missing: the candidate is undone whatever the
\* recursive call returned.
Retornar_siempre_deshace ==
    /\ pc = "buscando" /\ pila # <<>> /\ Cima.fase = "llamando"
    /\ retorno.pendiente
    /\ pila' = ConCima([Cima EXCEPT !.fase = "deshacer"])
    /\ retorno' = SinRetorno
    /\ UNCHANGED <<archivo, pc, dominios, asignacion, resultado, mensajes, invocaciones,
                   sembrados, historial, ultimo>>

\* lines 145-147: the recursive call has returned
Retornar ==
    /\ pc = "buscando" /\ pila # <<>> /\ Cima.fase = "llamando"
    /\ retorno.pendiente
    /\ IF verdadero(retorno.valor)
       THEN /\ pila' = Resto
            /\ ultimo' = Salida(Cima, retorno.valor)
            /\ UNCHANGED retorno
       ELSE /\ pila' = ConCima([Cima EXCEPT !.fase = "deshacer"])
            /\ retorno' = SinRetorno
            /\ UNCHANGED ultimo
    /\ UNCHANGED <<archivo, pc, dominios, asignacion, resultado, mensajes, invocaciones,
                   sembrados, historial>>

\* Mutant: after the undo the same candidate is tried again.
Deshacer_sin_avanzar ==
    /\ pc = "buscando" /\ pila # <<>> /\ Cima.fase = "deshacer"
    /\ dominios' = deshacer_cambios(dominios, Cima.cambios)
    /\ asignacion' = desasignar(asignacion, Cima.variable)
    /\ pila' = ConCima([Cima EXCEPT !.fase = "bucle", !.cambios = <<>>])
    /\ UNCHANGED <<archivo, pc, retorno, resultado, mensajes, invocaciones, ultimo,
                   sembrados, historial>>

\* lines 149-154: undo the forward checking, then the assignment
Deshacer ==
    /\ pc = "buscando" /\ pila # <<>> /\ Cima.fase = "deshacer"
    /\ dominios' = deshacer_cambios(dominios, Cima.cambios)
    /\ asignacion' = desasignar(asignacion, Cima.variable)
    /\ pila' = ConCima([Cima EXCEPT !.fase = "bucle", !.idx = @ + 1, !.cambios = <<>>])
    /\ UNCHANGED <<archivo, pc, retorno, resultado, mensajes, invocaciones, ultimo,
                   sembrados, historial>>

\* line 156: every candidate has been tried
Agotar ==
    /\ pc = "buscando" /\ pila # <<>> /\ Cima.fase = "bucle"
    /\ Cima.idx > Len(Cima.valores)
    /\ pila' = Resto
    /\ retorno' = Retorno(None)
    /\ ultimo' = Salida(Cima, None)
    /\ UNCHANGED <<archivo, pc, dominios, asignacion, resultado, mensajes, invocaciones,
                   sembrados, historial>>

\* Mutant: line 220 does not look at what the search returned.
Finalizar_sin_mirar ==
    /\ pc = "buscando" /\ pila = <<>> /\ retorno.pendiente
    /\ mensajes' = Append(mensajes, "solucion_encontrada")
    /\ resultado' = retorno.valor
    /\ pc' = "fin"
    /\ UNCHANGED <<archivo, dominios, asignacion, pila, retorno, invocaciones, ultimo,
                   sembrados, historial>>

\* lines 218-225: the root call has returned
Finalizar ==
    /\ pc = "buscando" /\ pila = <<>> /\ retorno.pendiente
    /\ IF verdadero(retorno.valor)
       THEN /\ mensajes' = Append(mensajes, "solucion_encontrada")
            /\ resultado' = retorno.valor
       ELSE /\ mensajes' = Append(mensajes, "no_solucion")
            /\ resultado' = None
    /\ pc' = "fin"
    /\ UNCHANGED <<archivo, dominios, asignacion, pila, retorno, invocaciones, ultimo,
                   sembrados, historial>>

Next == Cargar \/ Propagar \/ Entrar \/ Probar \/ Retornar \/ Deshacer \/ Agotar
        \/ Finalizar

Spec == Init /\ [][Next]_vars

\* The files of a caller that calls the resolver several times.
ENTRADAS_BREVES ==
    {Fichero([LineasDe(t) EXCEPT ![POSICIONES[1]] = f]) :
        t \in {TABLERO_RESUELTO, TABLERO_SIN_SOLUCION},
        f \in {<<"0">>, <<"6">>, <<"1", "2">>}}

\* the messages of lines 198, 213, 224 and 135: one per kind of failure
AVISOS_DE_FALLO == {"numero_invalido", "inconsistente", "no_solucion", "error_mrv"}

\* what a finished call gave its caller: the value returned, the failures
\* that occurred during the call and the last message printed
Llamada ==
    [valor |-> resultado,
     fallos |-> {mensajes[k] : k \in DOMAIN mensajes} \cap AVISOS_DE_FALLO,
     final |-> mensajes[Len(mensajes)]]

\* line 180 again: the caller keeps what the call returned and calls the
\* resolver on another file; every call starts from fresh domains (line 184)
\* and an empty assignment (line 218)
OtraLlamada ==
    /\ pc = "fin"
    /\ historial' = historial \cup {Llamada}
    /\ archivo' \in ENTRADAS_BREVES
    /\ pc' = "inicio"
    /\ dominios' = [clave \in Celdas |-> DOMINIO]
    /\ asignacion' = <<>>
    /\ pila' = <<>>
    /\ retorno' = SinRetorno
    /\ resultado' = None
    /\ mensajes' = <<>>
    /\ invocaciones' = 0
    /\ ultimo' = None
    /\ sembrados' = None

InitLlamadas == Init /\ archivo \in ENTRADAS_BREVES

NextLlamadas == Next \/ OtraLlamada

SpecLlamadas == InitLlamadas /\ [][NextLlamadas]_vars

---------------------------------------------------------------------------
(* The grid as the specification describes it, stated without the code's   *)
(* construction: 9 columns A..I, 9 rows 1..9, 9 boxes of 3 x 3.            *)

Conjunto(lista) == {lista[k] : k \in DOMAIN lista}

CeldasEsperadas == {Clave(ID_COLUMNAS[c], f) : c \in 1..9, f \in 1..9}

ColumnasEsperadas == {{Clave(ID_COLUMNAS[c], f) : f \in 1..9} : c \in 1..9}

FilasEsperadas == {{Clave(ID_COLUMNAS[c], f) : c \in 1..9} : f \in 1..9}

CajasEsperadas ==
    {{Clave(ID_COLUMNAS[3 * bc + j], 3 * bf + i) : i \in 1..3, j \in 1..3} :
        bf \in 0..2, bc \in 0..2}

GruposEsperados == ColumnasEsperadas \cup FilasEsperadas \cup CajasEsperadas

\* the solutions that a call has returned in this state: by the root call
\* of backtrack_resolver, or by resolver_sudoku_desde_archivo
SolucionesDevueltas ==
    IF pc = "fin" /\ resultado # None THEN {resultado[1]}
    ELSE IF pc = "buscando" /\ pila = <<>> /\ retorno.pendiente /\ retorno.valor # None
    THEN {retorno.valor[1]}
    ELSE {}

SinRepetidos(sol, grupo) ==
    \A a \in grupo, b \in grupo :
        (a # b /\ a \in DOMAIN sol /\ b \in DOMAIN sol) => sol[a] # sol[b]

(* C1: whenever the solver returns a solution, no two distinct cells of    *)
(* any of the 27 groups (9 columns, 9 rows, 9 boxes) hold the same digit   *)
(* in the returned mapping.                                                *)
C1_SolucionSinRepetidos ==
    \A sol \in SolucionesDevueltas : \A g \in GruposEsperados : SinRepetidos(sol, g)

\* a solution returned by a search that had to backtrack
C1_Testigo ==
    /\ pc = "fin" /\ verdadero(resultado)
    /\ invocaciones > Len(CLAVES_CELDA) + 1

(* C2: whenever the solver returns a solution, the returned mapping has an *)
(* entry for each of the 81 cells and each entry is a digit in 1..9.       *)
C2_SolucionCompleta ==
    \A sol \in SolucionesDevueltas :
        /\ DOMAIN sol = CeldasEsperadas
        /\ Cardinality(DOMAIN sol) = 81
        /\ \A c \in DOMAIN sol : sol[c] \in 1..9

\* a solution returned for a board on which the file fixed no cell
C2_Testigo ==
    /\ pc = "fin" /\ verdadero(resultado)
    /\ sembrados # None /\ \A c \in CeldasEsperadas : sembrados[1][c] = 1..9

\* The groups built by lines 26-57, against the grid described above.
TopologiaConstruida ==
    LET R == TODAS_LAS_RESTRICCIONES
        deClase(clase) == {g \in DOMAIN R : Conjunto(R[g]) \in clase}
        cajas == deClase(CajasEsperadas)
    IN  /\ Len(R) = 27
        /\ Cardinality(Celdas) = 81 /\ Celdas = CeldasEsperadas
        /\ Cardinality(deClase(ColumnasEsperadas)) = 9
        /\ Cardinality(deClase(FilasEsperadas)) = 9
        /\ Cardinality(cajas) = 9
        /\ {Conjunto(R[g]) : g \in DOMAIN R} = GruposEsperados
        /\ \A g \in DOMAIN R :
              /\ Len(R[g]) = 9 /\ Cardinality(Conjunto(R[g])) = 9
              /\ Conjunto(R[g]) \subseteq Celdas
        /\ \A c \in Celdas :
              /\ Cardinality({g \in DOMAIN R : EnLista(c, R[g])}) = 3
              /\ \A clase \in {ColumnasEsperadas, FilasEsperadas, CajasEsperadas} :
                    Cardinality({g \in deClase(clase) : EnLista(c, R[g])}) = 1
        /\ \A g \in cajas, h \in cajas :
              g # h => Conjunto(R[g]) \cap Conjunto(R[h]) = {}
        /\ UNION {Conjunto(R[g]) : g \in cajas} = Celdas

(* C9: the topology has exactly 27 groups, 9 columns, 9 rows and 9 boxes,  *)
(* each of 9 distinct cells out of the 81 cells that key the domains;      *)
(* every cell belongs to exactly 3 groups, one of each kind; the 9 boxes   *)
(* are pairwise disjoint and cover the grid.                               *)
C9_Topologia ==
    /\ DOMAIN dominios = CeldasEsperadas
    /\ TopologiaConstruida

\* forward checking has removed a digit from a cell that shares only a box
\* with the assigned cell
C9_Testigo ==
    /\ pila # <<>>
    /\ \E k \in DOMAIN Cima.cambios :
          /\ \E g \in CajasEsperadas : {Cima.variable, Cima.cambios[k][1]} \subseteq g
          /\ \A g \in ColumnasEsperadas \cup FilasEsperadas :
                ~({Cima.variable, Cima.cambios[k][1]} \subseteq g)

\* what the k-th line of the file asks for: the digit it holds, or nothing
DominioPedido(k) ==
    LET valor_linea == readline(archivo.lineas, k)
    IN  IF /\ valor_linea # <<>>
           /\ \A i \in DOMAIN valor_linea : EsDecimal(valor_linea[i])
           /\ int(valor_linea) \in 1..9
        THEN {int(valor_linea)}
        ELSE 1..9

(* C10 as stated: the k-th line goes to the cell with column index         *)
(* (k-1) div 9 and row ((k-1) mod 9) + 1 (A1, A2, ..., A9, B1, ...).       *)
C10_OrdenPorColumnas ==
    pc = "cargado" =>
        \A k \in 1..81 :
            dominios[Clave(ID_COLUMNAS[((k - 1) \div 9) + 1], ((k - 1) % 9) + 1)]
                = DominioPedido(k)

(* C10 as amended: the k-th line goes to the cell with column index        *)
(* (k-1) mod 9 and row ((k-1) div 9) + 1 (A1, B1, ..., I1, A2, ...).       *)
C10_OrdenPorFilas ==
    pc = "cargado" =>
        \A k \in 1..81 :
            dominios[Clave(ID_COLUMNAS[((k - 1) % 9) + 1], ((k - 1) \div 9) + 1)]
                = DominioPedido(k)

\* the digit of the second line has been given to B1 and not to A2
C10_Testigo ==
    /\ pc = "cargado"
    /\ Cardinality(DominioPedido(2)) = 1
    /\ dominios["B1"] = DominioPedido(2)
    /\ dominios["A2"] # DominioPedido(2)

(* C8: once the file has been read, every cell whose line holds a value in  *)
(* 1..9 has that value as its only candidate, every other cell has the     *)
(* full domain, and the resolver goes on to the initial pass.               *)
C8_SiembraDeTodasLasCeldas ==
    (pc # "inicio" /\ archivo.existe) =>
        /\ sembrados # None
        /\ \A k \in DOMAIN CLAVES_CELDA :
                sembrados[1][CLAVES_CELDA[k]] = DominioPedido(k)

---------------------------------------------------------------------------
\* two distinct cells of one group were fixed by the file to the same digit
ParesEnConflicto ==
    IF sembrados = None THEN {}
    ELSE {par \in UNION {g \X g : g \in GruposEsperados} :
            /\ par[1] # par[2]
            /\ Cardinality(sembrados[1][par[1]]) = 1
            /\ sembrados[1][par[1]] = sembrados[1][par[2]]}

(* C4: whenever two distinct cells of one group are fixed to the same      *)
(* digit, the initial pass reports inconsistency, the resolver returns     *)
(* None after announcing the inconsistency and backtrack_resolver is never *)
(* invoked.                                                                *)
C4_ConflictoDetectado ==
    ParesEnConflicto # {} =>
        IF pc = "cargado"
        THEN ~aplicar_consistencia_inicial(dominios, TODAS_LAS_RESTRICCIONES).ok
        ELSE /\ pc = "fin"
             /\ resultado = None
             /\ mensajes # <<>> /\ mensajes[Len(mensajes)] = "inconsistente"
             /\ invocaciones = 0 /\ pila = <<>>

\* the resolver has returned on a board with the same digit twice in a box,
\* the two cells being in different rows and columns
C4_Testigo ==
    /\ pc = "fin"
    /\ \E par \in ParesEnConflicto :
          \A g \in ColumnasEsperadas \cup FilasEsperadas : ~({par[1], par[2]} \subseteq g)

\* forward checking for the selected cell and a candidate, on the state as
\* line 144 calls it
FcDe(valor) ==
    forward_checking(Cima.variable, valor,
                     asignar(asignacion, Cima.variable, valor),
                     dominios, <<>>, TODAS_LAS_RESTRICCIONES)

EnDecision == pc = "buscando" /\ pila # <<>> /\ Cima.fase = "bucle"

(* C5: in every state of the search at a decision point, for the selected  *)
(* cell and every candidate digit, forward checking (successful or stopped *)
(* on an emptied domain) followed by the restoration of every pair of its  *)
(* change log gives back exactly the domains before the call.              *)
C5_DeshacerRestaura ==
    EnDecision =>
        \A valor \in dominios[Cima.variable] :
            deshacer_cambios(FcDe(valor).dominios, FcDe(valor).registro) = dominios

\* a decision point, below others, with a candidate whose forward checking
\* removes digits from several cells and then stops on an emptied domain
C5_Testigo ==
    /\ EnDecision /\ Len(pila) >= 2
    /\ \E valor \in dominios[Cima.variable] :
          /\ ~FcDe(valor).ok /\ Len(FcDe(valor).registro) >= 2
          /\ FcDe(valor).dominios # dominios

(* C6: when an invocation of backtrack_resolver (root or recursive) has    *)
(* just returned failure, the domains and the assignment are exactly those *)
(* of the moment the invocation was entered.                               *)
C6_FalloRestauraEntrada ==
    (pc = "buscando" /\ retorno.pendiente /\ ~verdadero(retorno.valor)) =>
        /\ ultimo # None /\ ~ultimo[1].exito
        /\ dominios = ultimo[1].dom_entrada
        /\ asignacion = ultimo[1].asg_entrada

\* a recursive invocation, entered with cells already assigned, has just
\* returned failure to a caller that is itself a recursive invocation
C6_Testigo ==
    /\ pc = "buscando" /\ retorno.pendiente /\ ~verdadero(retorno.valor)
    /\ Len(pila) >= 2
    /\ ultimo # None /\ DOMAIN ultimo[1].asg_entrada # {}

---------------------------------------------------------------------------
(* The valid completions of a set of fixed cells, found by a search of its *)
(* own over the grid as the specification describes it (no domains, no     *)
(* change log): at most two completions are looked for.                    *)

VecinasEsperadas ==
    [c \in CeldasEsperadas |-> UNION {g \in GruposEsperados : c \in g} \ {c}]

\* the digits that no filled cell of the row, column or box of c holds
Candidatas(rejilla, c) ==
    (1..9) \ {rejilla[p] : p \in VecinasEsperadas[c] \cap DOMAIN rejilla}

RECURSIVE Completar(_, _)
RECURSIVE CompletarCon(_, _, _, _)

\* halladas plus the completions of rejilla, until two are known; the holes
\* with one candidate are filled together, a hole with several is tried
\* digit by digit
Completar(rejilla, halladas) ==
    LET huecos == CeldasEsperadas \ DOMAIN rejilla
        tallas == {<<Cardinality(Candidatas(rejilla, c)), c>> : c \in huecos}
        forzadas == {t[2] : t \in {u \in tallas : u[1] = 1}}
        llena == [c \in forzadas |-> CHOOSE d \in Candidatas(rejilla, c) : TRUE] @@ rejilla
        menor == CHOOSE t \in tallas : \A u \in tallas : t[1] <= u[1]
        caso == IF Cardinality(halladas) >= 2 THEN "basta"
                ELSE IF huecos = {} THEN "completa"
                ELSE IF \E t \in tallas : t[1] = 0 THEN "muerta"
                ELSE IF forzadas = {} THEN "ramificar"
                ELSE IF \E c \in forzadas :
                          \E p \in VecinasEsperadas[c] \cap forzadas : llena[c] = llena[p]
                     THEN "muerta"
                     ELSE "rellenar"
    IN  CASE caso \in {"basta", "muerta"} -> halladas
          [] caso = "completa" -> halladas \cup {rejilla}
          [] caso = "rellenar" -> Completar(llena, halladas)
          [] caso = "ramificar" ->
                CompletarCon(rejilla, menor[2],
                             Ordenar(Candidatas(rejilla, menor[2])), halladas)

\* halladas plus the completions of rejilla that hold one of digitos in c
CompletarCon(rejilla, c, digitos, halladas) ==
    LET siguientes == Completar((c :> Head(digitos)) @@ rejilla, halladas)
    IN  CASE digitos = <<>> -> halladas
          [] digitos # <<>> /\ Cardinality(siguientes) >= 2 -> siguientes
          [] OTHER -> CompletarCon(rejilla, c, Tail(digitos), siguientes)

\* the cells fixed by the file, with their digits
Fijas ==
    LET fijadas == {c \in CeldasEsperadas : Cardinality(sembrados[1][c]) = 1}
    IN  [c \in fijadas |-> CHOOSE d \in sembrados[1][c] : TRUE]

\* whether the fixed cells can have exactly one valid completion: they hold
\* no digit twice in a group and lack at most one digit (exchanging two
\* digits that are not fixed anywhere turns a completion into another one)
PuedeSerUnica ==
    /\ sembrados # None
    /\ ParesEnConflicto = {}
    /\ Cardinality({Fijas[c] : c \in DOMAIN Fijas}) >= Cardinality(DOMINIO) - 1

\* up to two of the valid completions of the fixed cells, looked for where
\* there can be exactly one
Completaciones ==
    IF PuedeSerUnica THEN Completar(Fijas @@ <<>>, {}) ELSE {}

(* C3: when the cells fixed by the file have exactly one valid completion, *)
(* the resolver returns exactly that completion, cell for cell.            *)
C3_DevuelveLaUnica ==
    (pc = "fin" /\ sembrados # None) =>
        (Cardinality(Completaciones) = 1 => resultado \in {Algo(sol) : sol \in Completaciones})

\* the resolver has returned the only completion of a board on which it had
\* to give up several branches
C3_Testigo ==
    /\ pc = "fin" /\ sembrados # None
    /\ invocaciones > Len(CLAVES_CELDA) + 10
    /\ Cardinality(Completaciones) = 1
    /\ verdadero(resultado)

----------------------------------------------------------------------------
\* the messages after which the resolver returns None
AVISOS_DE_NONE == {"no_encontrado", "error_lectura", "inconsistente", "no_solucion"}

(* C7 as stated: the value a call returns identifies the failures that     *)
(* occurred in it: two calls that returned the same value had the same     *)
(* failures.                                                               *)
C7_ValorIdentificaFallo ==
    \A p \in historial : \A q \in historial :
        p.valor = q.valor => p.fallos = q.fallos

(* C7 as amended: an inconsistent puzzle, an exhausted search and an        *)
(* internal inconsistency all return None, an invalid input value alone    *)
(* does not change what is returned, and only the last message printed     *)
(* tells the outcomes apart.                                               *)
C7_FallosDevuelvenNone ==
    \A p \in historial :
        /\ p.fallos \ {"numero_invalido"} # {} => p.valor = None
        /\ p.valor = None <=> p.final \in AVISOS_DE_NONE
        /\ p.valor # None <=> p.final = "solucion_encontrada"
        /\ p.fallos \ {"numero_invalido"} \subseteq {p.final}

\* the caller has seen None after an inconsistent puzzle and after an
\* exhausted search, and the same grid with and without an invalid value
C7_Testigo ==
    /\ \E p \in historial : \E q \in historial :
            /\ p.valor = None /\ q.valor = None
            /\ p.fallos = {"inconsistente"} /\ q.fallos = {"no_solucion"}
    /\ \E p \in historial : \E q \in historial :
            /\ verdadero(p.valor) /\ p.valor = q.valor
            /\ p.fallos = {} /\ q.fallos = {"numero_invalido"}

----------------------------------------------------------------------------
\* the search was started (the initial pass succeeded) and the resolver has
\* reported that there is no solution
BusquedaSinSolucion ==
    /\ pc = "fin" /\ invocaciones > 0
    /\ resultado = None /\ mensajes[Len(mensajes)] = "no_solucion"

(* C11: a search started after a successful initial pass reports failure   *)
(* only when the fixed cells have no valid completion, and the board       *)
(* without fixed cells gets a complete valid grid.                         *)
C11_FalloSoloSinCompletacion ==
    /\ BusquedaSinSolucion =>
            (ParesEnConflicto # {} \/ Completar(Fijas @@ <<>>, {}) = {})
    /\ (pc = "fin" /\ sembrados # None
            /\ \A c \in CeldasEsperadas : sembrados[1][c] = DOMINIO) =>
            /\ verdadero(resultado)
            /\ DOMAIN resultado[1] = CeldasEsperadas
            /\ \A g \in GruposEsperados : {resultado[1][c] : c \in g} = DOMINIO

\* the search has tried candidates, given them up and reported failure
C11_Testigo ==
    /\ BusquedaSinSolucion
    /\ invocaciones > 1
    /\ Fijas @@ <<>> # <<>>

----------------------------------------------------------------------------
\* the candidates of a store, cell by cell
Candidatos(dom) == UNION {{c} \X dom[c] : c \in DOMAIN dom}

\* one scan of all the groups (lines 167-177) over dom
Pasada(dom) ==
    bucle_grupos([dominios |-> dom, cambio |-> FALSE, vacio |-> FALSE],
                 TODAS_LAS_RESTRICCIONES, 1)

\* the scans the initial pass makes from dom: every scan after which the
\* while of line 165 goes round again has removed a candidate
RECURSIVE PasadasDecrecen(_)
PasadasDecrecen(dom) ==
    LET st == Pasada(dom)
    IN  /\ Candidatos(st.dominios) \subseteq Candidatos(dom)
        /\ (st.cambio /\ ~st.vacio) =>
                /\ Cardinality(Candidatos(st.dominios)) < Cardinality(Candidatos(dom))
                /\ PasadasDecrecen(st.dominios)

\* the number of scans the initial pass makes from dom
RECURSIVE Pasadas(_)
Pasadas(dom) ==
    LET st == Pasada(dom)
    IN  IF st.cambio /\ ~st.vacio THEN 1 + Pasadas(st.dominios) ELSE 1

\* no candidate of a cell is the only candidate of another cell of a group
PuntoFijo(dom) ==
    /\ \A c \in CeldasEsperadas : dom[c] # {}
    /\ \A g \in GruposEsperados : \A c \in g :
            Cardinality(dom[c]) = 1 =>
                \A n \in g \ {c} : dom[c] \cap dom[n] = {}

(* C12: the initial pass ends (each scan that is followed by another has   *)
(* removed a candidate), it only removes candidates from the seeded        *)
(* domains, and when it reports consistency the domains it leaves are a    *)
(* fixed point: none is empty and the digit of a single-candidate cell is  *)
(* a candidate of no other cell of its groups.                             *)
C12_PasadaInicialPuntoFijo ==
    /\ pc = "cargado" =>
            /\ PasadasDecrecen(dominios)
            /\ Pasadas(dominios) <= Cardinality(Candidatos(dominios)) + 1
    /\ (sembrados # None /\ pc # "cargado") =>
            /\ DOMAIN dominios = DOMAIN sembrados[1]
            /\ Candidatos(dominios) \subseteq Candidatos(sembrados[1])
    /\ (pc = "buscando" /\ pila # <<>>) => PuntoFijo(pila[1].dom_entrada)
    /\ (pc = "buscando" /\ invocaciones = 1 /\ pila # <<>> /\ Cima.fase = "entrada") =>
            dominios = pila[1].dom_entrada

\* the initial pass has reported consistency after three scans or more and
\* has removed candidates
C12_Testigo ==
    /\ pc = "buscando" /\ invocaciones = 1 /\ pila # <<>> /\ Cima.fase = "entrada"
    /\ Pasadas(sembrados[1]) >= 3
    /\ dominios # sembrados[1]

----------------------------------------------------------------------------
\* the cells whose domain differs between two stores
Cambiadas(antes, despues) == {c \in CeldasEsperadas : despues[c] # antes[c]}

(* C13: at every decision point, for the selected cell and each of its     *)
(* candidates, forward checking changes only domains of unassigned cells   *)
(* other than the selected one that share a group with it, takes from each *)
(* of them the candidate alone, and its change log holds the pair (cell,   *)
(* candidate) once for each changed cell and nothing else.                 *)
C13_MarcoDeForwardChecking ==
    EnDecision =>
        \A valor \in dominios[Cima.variable] :
            LET fc == FcDe(valor)
                registro == fc.registro
                cambiadas == Cambiadas(dominios, fc.dominios)
            IN  /\ DOMAIN fc.dominios = DOMAIN dominios
                /\ \A c \in cambiadas :
                        /\ c \notin DOMAIN asignacion /\ c # Cima.variable
                        /\ c \in VecinasEsperadas[Cima.variable]
                        /\ valor \in dominios[c]
                        /\ fc.dominios[c] = dominios[c] \ {valor}
                /\ {registro[k] : k \in DOMAIN registro} = {<<c, valor>> : c \in cambiadas}
                /\ Len(registro) = Cardinality(cambiadas)

\* a decision point with a candidate that forward checking removes from a
\* cell of the row and the box of the selected cell, and leaves in the
\* domain of an assigned cell of its groups
C13_Testigo ==
    /\ EnDecision
    /\ \E valor \in dominios[Cima.variable] :
          /\ \E c \in Cambiadas(dominios, FcDe(valor).dominios) :
                 \E f \in FilasEsperadas : \E b \in CajasEsperadas :
                    {c, Cima.variable} \subseteq f \cap b
          /\ \E a \in VecinasEsperadas[Cima.variable] \cap DOMAIN asignacion :
                 valor \in dominios[a]

----------------------------------------------------------------------------
\* the unassigned cells with no candidate left in dom under asig
SinCandidatos(dom, asig) == {c \in CeldasEsperadas \ DOMAIN asig : dom[c] = {}}

(* C14: every invocation of backtrack_resolver is entered with a candidate *)
(* left for every unassigned cell; forward checking reports inconsistency  *)
(* exactly when it has emptied a domain and stops at that removal, and the *)
(* search then undoes instead of recursing: a domain is empty only while   *)
(* the frame on top is undoing.                                            *)
C14_EntradaSinDominioVacio ==
    /\ (pc = "buscando" /\ pila # <<>> /\ Cima.fase = "entrada") =>
            SinCandidatos(dominios, asignacion) = {}
    /\ (pc = "buscando" /\ pila # <<>> /\ SinCandidatos(dominios, asignacion) # {}) =>
            /\ Cima.fase = "deshacer"
            /\ Cima.cambios # <<>>
            /\ SinCandidatos(dominios, asignacion) = {Cima.cambios[Len(Cima.cambios)][1]}
    /\ EnDecision =>
            \A valor \in dominios[Cima.variable] :
                LET fc == FcDe(valor)
                    vacias == SinCandidatos(fc.dominios,
                                            asignar(asignacion, Cima.variable, valor))
                IN  /\ fc.ok <=> vacias = {}
                    /\ ~fc.ok => vacias = {fc.registro[Len(fc.registro)][1]}

\* forward checking has just emptied a domain below the root invocation and
\* the frame is about to undo
C14_Testigo ==
    /\ pc = "buscando" /\ Len(pila) >= 2 /\ Cima.fase = "deshacer"
    /\ SinCandidatos(dominios, asignacion) # {}

----------------------------------------------------------------------------
\* the place of a cell in the iteration order of the 81 identifiers
Lugar(c) == CHOOSE k \in DOMAIN CLAVES_CELDA : CLAVES_CELDA[k] = c

\* the frame on top has selected its cell (lines 133-138 are behind it)
ConVariable == pc = "buscando" /\ pila # <<>> /\ Cima.fase # "entrada"

(* C15: the cell selected at a decision point is unassigned, no unassigned *)
(* cell has fewer candidates, and no unassigned cell with as few comes     *)
(* earlier in CLAVES_CELDA; its candidates are tried in ascending order.   *)
C15_SeleccionMRV ==
    /\ EnDecision =>
            /\ Cima.variable \in CeldasEsperadas \ DOMAIN asignacion
            /\ \A n \in CeldasEsperadas \ DOMAIN asignacion :
                    /\ Cardinality(dominios[Cima.variable]) <= Cardinality(dominios[n])
                    /\ Cardinality(dominios[n]) = Cardinality(dominios[Cima.variable])
                            => Lugar(Cima.variable) <= Lugar(n)
            /\ {Cima.valores[k] : k \in DOMAIN Cima.valores} = dominios[Cima.variable]
    /\ ConVariable =>
            /\ \A j \in DOMAIN Cima.valores : \A k \in DOMAIN Cima.valores :
                    j < k => Cima.valores[j] < Cima.valores[k]
            /\ Cima.fase \in {"llamando", "deshacer"} =>
                    asignacion[Cima.variable] = Cima.valores[Cima.idx]

\* the second candidate of a cell is about to be tried; the cell was chosen
\* among several of the smallest size and after an earlier cell with more
\* candidates
C15_Testigo ==
    /\ EnDecision /\ Cima.idx = 2 /\ Len(Cima.valores) >= 2
    /\ \E n \in CeldasEsperadas \ DOMAIN asignacion :
          /\ n # Cima.variable
          /\ Cardinality(dominios[n]) = Cardinality(dominios[Cima.variable])
    /\ \E n \in CeldasEsperadas \ DOMAIN asignacion :
          /\ Lugar(n) < Lugar(Cima.variable)
          /\ Cardinality(dominios[n]) > Cardinality(dominios[Cima.variable])

----------------------------------------------------------------------------
\* the recursion depth: the invocations below the root one
Profundidad == Len(pila) - 1

\* a solution is on its way up the frames (lines 131 and 146-147)
SubiendoSolucion == retorno.pendiente /\ verdadero(retorno.valor)

\* a candidate of the frame on top is in force: assigned at line 140 and
\* not yet undone at line 154
CandidatoEnVigor == Cima.fase \in {"llamando", "deshacer"}

\* every frame was entered with as many assigned cells as invocations lie
\* below it; the assignment has that size at the entry and at the loop head
\* of the deepest frame, one entry more while a candidate of that frame is
\* in force, and all its 81 entries while a solution goes up
ProfundidadEsAsignacion ==
    (pc = "buscando" /\ pila # <<>>) =>
        /\ \A k \in DOMAIN pila : Cardinality(DOMAIN pila[k].asg_entrada) = k - 1
        /\ Cardinality(DOMAIN asignacion) =
                IF SubiendoSolucion THEN Len(CLAVES_CELDA)
                ELSE IF CandidatoEnVigor THEN Profundidad + 1
                ELSE Profundidad
        /\ Profundidad <= Len(CLAVES_CELDA)

(* C16 as stated, for the recursion depth: all along the search the        *)
(* recursion depth is the size of the assignment, the invocation that a    *)
(* candidate in force stands for being counted in the depth.               *)
C16_ProfundidadSiempreIgual ==
    (pc = "buscando" /\ pila # <<>>) =>
        Cardinality(DOMAIN asignacion) =
            IF CandidatoEnVigor THEN Profundidad + 1 ELSE Profundidad

\* how far a frame has got: its candidate index, then its phase within the
\* candidate, then whether the invocation it made has returned to it
AvanceDe(k) ==
    LET m == pila[k]
        fase == CASE m.fase = "entrada" -> 0 [] m.fase = "bucle" -> 1
                  [] m.fase = "llamando" -> 2 [] m.fase = "deshacer" -> 3
    IN  8 * m.idx + 2 * fase + (IF k = Len(pila) /\ retorno.pendiente THEN 1 ELSE 0)

\* how far the resolver has got: the stage, whether the root invocation has
\* returned, and the advance of every frame from the root one down
Posicion ==
    LET etapa == CASE pc = "inicio" -> 0 [] pc = "cargado" -> 1
                   [] pc = "buscando" -> 2 [] pc = "fin" -> 3
    IN  <<etapa, IF pila = <<>> /\ retorno.pendiente THEN 1 ELSE 0>>
            \o [k \in DOMAIN pila |-> AvanceDe(k)]

\* a comes before b in the lexicographic order
Antes(a, b) ==
    LET distintos == {k \in DOMAIN a \cap DOMAIN b : a[k] # b[k]}
        primero == CHOOSE k \in distintos : \A j \in distintos : k <= j
    IN  IF distintos = {} THEN Len(a) < Len(b) ELSE a[primero] < b[primero]

\* the positions are bounded: at most 82 frames of at most 9 candidates
PosicionAcotada ==
    /\ Len(pila) <= Len(CLAVES_CELDA) + 1
    /\ \A k \in DOMAIN pila :
            pila[k].idx \in 1..(Len(pila[k].valores) + 1)
                /\ Len(pila[k].valores) <= Cardinality(DOMINIO)

(* C16 as amended: the search always ends: every step of the resolver     *)
(* moves it to a later position of a bounded, lexicographically ordered    *)
(* set, and the end is the return of a solution or of None; every          *)
(* invocation is entered with as many assigned cells as its depth, at most *)
(* 81, and the assignment is larger than the depth only while a candidate  *)
(* is in force or a solution is being returned.                            *)
C16_TerminaYProfundidad ==
    [][/\ Antes(Posicion, Posicion')
       /\ PosicionAcotada'
       /\ ProfundidadEsAsignacion'
       /\ pc' = "fin" => (pila' = <<>> /\ (verdadero(resultado') \/ resultado' = None))]_vars

\* the invocation at depth 81 has been entered after the search gave up
\* other branches
C16_Testigo ==
    /\ pc = "buscando" /\ Profundidad = Len(CLAVES_CELDA) /\ Cima.fase = "entrada"
    /\ invocaciones > Len(pila)

----------------------------------------------------------------------------
\* an invocation has found the assignment complete and the solution has
\* not reached the caller of the root invocation yet
ExitoEnCurso == pc = "buscando" /\ SubiendoSolucion

(* C17: from the moment an invocation finds the assignment complete, each  *)
(* step only leaves the frame on top as it is (no candidate tried, no cell *)
(* unassigned, no domain changed, no invocation made) until the root       *)
(* invocation returns, and what the resolver returns is the assignment as  *)
(* it was when it became complete.                                         *)
C17_ExitoDefinitivo ==
    [][ExitoEnCurso =>
          /\ retorno.valor = Algo(asignacion)
          /\ DOMAIN asignacion = CeldasEsperadas
          /\ asignacion' = asignacion /\ dominios' = dominios
          /\ invocaciones' = invocaciones
          /\ IF pila # <<>>
             THEN pila' = Resto /\ retorno' = retorno /\ pc' = "buscando"
             ELSE pila' = <<>> /\ pc' = "fin" /\ resultado' = Algo(asignacion)]_vars

\* a solution found after giving up branches passes through a frame that
\* has candidates left to try and a change log to undo
C17_Testigo ==
    /\ ExitoEnCurso /\ pila # <<>>
    /\ Cima.idx < Len(Cima.valores) /\ Cima.cambios # <<>>
    /\ invocaciones > Len(CLAVES_CELDA) + 1

----------------------------------------------------------------------------
\* the lines of the file that fix a cell
LineasFijas == {k \in DOMAIN CLAVES_CELDA : Cardinality(DominioPedido(k)) = 1}

(* C18: a returned solution holds, for every cell that the file fixes to a *)
(* digit of 1..9, that digit; all along the search every assigned cell     *)
(* holds a digit of its seeded domain and every domain stays within the    *)
(* seeded one.                                                             *)
C18_SolucionRespetaFijas ==
    /\ \A sol \in SolucionesDevueltas : \A k \in LineasFijas :
            /\ CLAVES_CELDA[k] \in DOMAIN sol
            /\ sol[CLAVES_CELDA[k]] \in DominioPedido(k)
    /\ pc = "buscando" =>
            /\ \A c \in DOMAIN asignacion : asignacion[c] \in sembrados[1][c]
            /\ \A c \in CeldasEsperadas : dominios[c] \subseteq sembrados[1][c]

\* a solution returned, after giving up branches, for a board with fixed
\* and with empty cells
C18_Testigo ==
    /\ pc = "fin" /\ verdadero(resultado)
    /\ invocaciones > Len(CLAVES_CELDA) + 1
    /\ LineasFijas # {} /\ LineasFijas # DOMAIN CLAVES_CELDA

----------------------------------------------------------------------------
\* the pairs of an assigned cell and an unassigned cell of one of its
\* groups that still has the digit of the first among its candidates
DigitosSinPodar ==
    {<<c, n>> \in (DOMAIN asignacion) \X (CeldasEsperadas \ DOMAIN asignacion) :
        n \in VecinasEsperadas[c] /\ asignacion[c] \in dominios[n]}

(* C19: at the entry of every invocation and at the head of every          *)
(* candidate iteration, no unassigned cell has among its candidates the    *)
(* digit of an assigned cell of its groups, so that the direct check of    *)
(* line 139 accepts every candidate of the selected cell.                  *)
C19_ComprobacionRedundante ==
    /\ (pc = "buscando" /\ pila # <<>> /\ Cima.fase \in {"entrada", "bucle"}) =>
            DigitosSinPodar = {}
    /\ EnDecision =>
            \A k \in DOMAIN Cima.valores :
                es_consistente_con_asignacion(Cima.variable, Cima.valores[k], asignacion,
                                              TODAS_LAS_RESTRICCIONES)

\* the head of the iteration for a second candidate, after an undo, several
\* invocations deep
C19_Testigo ==
    /\ EnDecision /\ Len(pila) >= 3
    /\ Cima.idx = 2 /\ Len(Cima.valores) >= 2
    /\ \E c \in DOMAIN asignacion : VecinasEsperadas[c] \ DOMAIN asignacion # {}

=============================================================================
